---------------------------- MODULE Spec2Model ----------------------------
(***************************************************************************)
(* Sliding-block puzzle generator: the board (generator/board.py) and the  *)
(* breadth-first solver (generator/solver.py).                             *)
(*                                                                         *)
(* A Vehicle is a record [id, orientation, length, row, col].  A Board is  *)
(* a record [size, vehicles]; `vehicles` is the dict  id -> Vehicle  of    *)
(* board.py, kept as the sequence of its values in insertion order (the    *)
(* order Python's dict iterates in), with at most one entry per id.        *)
(***************************************************************************)
EXTENDS Integers, Sequences, FiniteSets, TLC

VARIABLES
    board,      \* the Board under construction / handed to solve_board
    last,       \* the last Board call made by the caller and what it returned
    pc,         \* where the caller stands: "api", "target", "build", "loop",
                \* "done", "returned"
    queue,      \* solve_board: deque of [board, moves, path]
    visited,    \* solve_board: set of state hashes
    result,     \* solve_board: the returned (is_solvable, min_moves, path)
    dequeues,   \* solve_board: number of queue.popleft() calls so far
    gen         \* generate_random_level: difficulty_min_moves, the attempt it
                \* is in, and what it returned ("None" or "level", and the
                \* level)

vars == <<board, last, pc, queue, visited, result, dequeues, gen>>

---------------------------------------------------------------------------
(* Bounds of the model *)

\* Board.size of the boards explored (board.py:27 defaults it to 6).
BoardSize == 4
\* Most obstacles (vehicles other than the target) placed on a board handed
\* to solve_board.
MaxObstacles == 3
\* Most vehicles on a board driven through the Board API directly.
MaxApiVehicles == 2
\* Ceiling on the search depth explored; see Ceiling.
DepthBound == 3

(* Program constants *)

\* solver.py:14
MAX_DEPTH == 100

\* The depth ceiling the search runs with: MAX_DEPTH, scaled down to
\* DepthBound so that boards of BoardSize cells lie on both sides of it.
Ceiling == IF DepthBound < MAX_DEPTH THEN DepthBound ELSE MAX_DEPTH

\* Vehicle ids, as the generator names them (generator.py:25, 47): the
\* target, and obstacle i named car_i or truck_i after its length.
ObstacleIds == <<"car_0", "truck_1", "car_2", "truck_3">>

\* The ids a caller of the Board API uses.
Ids == {"car_0", "target", "truck_1"}

\* Python's order on the ids above, which sorted() in get_state_hash uses:
\* 'car_0' < 'car_2' < 'target' < 'truck_1' < 'truck_3'.
IdRank(id) ==
    CASE id = "car_0" -> 0 [] id = "car_2" -> 1 [] id = "target" -> 2
      [] id = "truck_1" -> 3 [] id = "truck_3" -> 4

Orientations == {"horizontal", "vertical"}

\* generator.py:34 : cars of length 2, trucks of length 3.
Lengths == {2, 3}

---------------------------------------------------------------------------
(* generator/board.py *)

\* Vehicle.__init__
Vehicle(id, orientation, length, row, col) ==
    [id |-> id, orientation |-> orientation, length |-> length,
     row |-> row, col |-> col]

\* Vehicle.occupies
occupies(v) ==
    IF v.orientation = "horizontal"
    THEN { <<v.row, v.col + i>> : i \in 0 .. (v.length - 1) }
    ELSE { <<v.row + i, v.col>> : i \in 0 .. (v.length - 1) }

\* Board.__init__
Board(size) == [size |-> size, vehicles |-> <<>>]

\* self.vehicles.keys()
keys(b) == { b.vehicles[i].id : i \in DOMAIN b.vehicles }

\* self.vehicles[v_id]  (v_id a key of the dict)
lookup(b, v_id) ==
    b.vehicles[CHOOSE i \in DOMAIN b.vehicles : b.vehicles[i].id = v_id]

\* self.vehicles[vehicle.id] = vehicle : an existing key keeps its place in
\* the iteration order, a new key goes last.
DictSet(vs, v) ==
    IF \E i \in DOMAIN vs : vs[i].id = v.id
    THEN [i \in DOMAIN vs |-> IF vs[i].id = v.id THEN v ELSE vs[i]]
    ELSE Append(vs, v)

\* The overlap test of add_vehicle (board.py:35-37).
Overlaps(b, vehicle) ==
    \E i \in DOMAIN b.vehicles :
        occupies(vehicle) \cap occupies(b.vehicles[i]) # {}

\* The bounds test with r > self.size and c > self.size for the high edges.
OutOfBoundsOffByOne(b, vehicle) ==
    \E cell \in occupies(vehicle) :
        cell[1] < 0 \/ cell[1] > b.size \/ cell[2] < 0 \/ cell[2] > b.size

\* The bounds test of add_vehicle (board.py:40-42).
OutOfBounds(b, vehicle) ==
    \E cell \in occupies(vehicle) :
        cell[1] < 0 \/ cell[1] >= b.size \/ cell[2] < 0 \/ cell[2] >= b.size

\* Board.add_vehicle: the returned flag and the board afterwards.
add_vehicle(b, vehicle) ==
    IF Overlaps(b, vehicle) THEN [ok |-> FALSE, board |-> b]
    ELSE IF OutOfBounds(b, vehicle) THEN [ok |-> FALSE, board |-> b]
    ELSE [ok |-> TRUE,
          board |-> [b EXCEPT !.vehicles = DictSet(b.vehicles, vehicle)]]

\* Insertion of id into a sequence of ids sorted by IdRank.
RECURSIVE InsertSorted(_, _)
InsertSorted(s, id) ==
    IF s = <<>> THEN <<id>>
    ELSE IF IdRank(id) < IdRank(Head(s)) THEN <<id>> \o s
    ELSE <<Head(s)>> \o InsertSorted(Tail(s), id)

\* self.vehicles.keys() as iterated, without sorted().
UnsortedKeys(vs) == [i \in DOMAIN vs |-> vs[i].id]

\* sorted(self.vehicles.keys())
RECURSIVE SortedKeys(_)
SortedKeys(vs) ==
    IF vs = <<>> THEN <<>>
    ELSE InsertSorted(SortedKeys(Tail(vs)), Head(vs).id)

\* Board.get_state_hash
get_state_hash(b) ==
    LET ks == SortedKeys(b.vehicles)
    IN  [i \in DOMAIN ks |->
            <<ks[i], lookup(b, ks[i]).row, lookup(b, ks[i]).col>>]

\* is_solved() without the test for 'target': any vehicle at the right edge.
is_solved_any_vehicle(b) ==
    \E i \in DOMAIN b.vehicles :
        b.vehicles[i].col + b.vehicles[i].length = b.size

\* Board.is_solved
is_solved(b) ==
    IF "target" \notin keys(b) THEN FALSE
    ELSE lookup(b, "target").col + lookup(b, "target").length = b.size

\* Board.get_occupied_cells
get_occupied_cells(b) ==
    UNION { occupies(b.vehicles[i]) : i \in DOMAIN b.vehicles }

\* The forward probe taken from the anchor, without  + length - 1.
FrontCellFromAnchor(vehicle, steps) ==
    IF vehicle.orientation = "horizontal"
    THEN <<vehicle.row, vehicle.col + steps>>
    ELSE <<vehicle.row + steps, vehicle.col>>

\* The cell tested for a forward slide of `steps` (board.py:91-94).
FrontCell(vehicle, steps) ==
    IF vehicle.orientation = "horizontal"
    THEN <<vehicle.row, vehicle.col + vehicle.length - 1 + steps>>
    ELSE <<vehicle.row + vehicle.length - 1 + steps, vehicle.col>>

\* The cell tested for a backward slide of `steps` (board.py:113-116).
BackCell(vehicle, steps) ==
    IF vehicle.orientation = "horizontal"
    THEN <<vehicle.row, vehicle.col - steps>>
    ELSE <<vehicle.row - steps, vehicle.col>>

\* The forward probe with the bounds test  >= self.size - 1.
ForwardBlockedOffByOne(b, vehicle, occupied, current_my_cells, steps) ==
    LET cell == FrontCell(vehicle, steps)
    IN  /\ vehicle.length > 0
        /\ \/ cell[1] >= b.size - 1
           \/ cell[2] >= b.size - 1
           \/ (cell \in occupied /\ cell \notin current_my_cells)

\* The forward probe with the bounds test alone, without the test of
\* board.py:100.
ForwardBlockedBoundsOnly(b, vehicle, occupied, current_my_cells, steps) ==
    LET cell == FrontCell(vehicle, steps)
    IN  vehicle.length > 0 /\ (cell[1] >= b.size \/ cell[2] >= b.size)

\* `blocked` after the inner loop of the forward probe (board.py:90-102),
\* given occupied = self.get_occupied_cells() (board.py:78) and
\* current_my_cells = vehicle.occupies() (board.py:82).  The loop body does
\* not depend on i: it runs the same test `length` times.
ForwardBlocked(b, vehicle, occupied, current_my_cells, steps) ==
    LET cell == FrontCell(vehicle, steps)
    IN  /\ vehicle.length > 0
        /\ \/ cell[1] >= b.size
           \/ cell[2] >= b.size
           \/ (cell \in occupied /\ cell \notin current_my_cells)

\* The backward probe with the bounds test alone, without the test of
\* board.py:122.
BackwardBlockedBoundsOnly(b, vehicle, occupied, current_my_cells, steps) ==
    LET cell == BackCell(vehicle, steps)
    IN  vehicle.length > 0 /\ (cell[1] < 0 \/ cell[2] < 0)

\* `blocked` after the inner loop of the backward probe (board.py:112-124).
BackwardBlocked(b, vehicle, occupied, current_my_cells, steps) ==
    LET cell == BackCell(vehicle, steps)
    IN  /\ vehicle.length > 0
        /\ \/ cell[1] < 0
           \/ cell[2] < 0
           \/ (cell \in occupied /\ cell \notin current_my_cells)

\* The forward loop going on to the next step at a blocked one
\* (`continue`) instead of leaving the loop.
RECURSIVE ForwardMovesNoBreak(_, _, _, _, _)
ForwardMovesNoBreak(b, vehicle, occupied, current_my_cells, steps) ==
    IF steps >= b.size THEN <<>>
    ELSE (IF ForwardBlocked(b, vehicle, occupied, current_my_cells, steps)
          THEN <<>> ELSE <<<<vehicle.id, steps>>>>)
            \o ForwardMovesNoBreak(b, vehicle, occupied, current_my_cells,
                                   steps + 1)

\* for steps in range(1, self.size): ... break at the first blocked step,
\* else moves.append((v_id, steps))  (board.py:86-106).
RECURSIVE ForwardMoves(_, _, _, _, _)
ForwardMoves(b, vehicle, occupied, current_my_cells, steps) ==
    IF steps >= b.size
       \/ ForwardBlocked(b, vehicle, occupied, current_my_cells, steps)
    THEN <<>>
    ELSE <<<<vehicle.id, steps>>>>
            \o ForwardMoves(b, vehicle, occupied, current_my_cells, steps + 1)

\* The same backward, appending (v_id, -steps)  (board.py:109-128).
RECURSIVE BackwardMoves(_, _, _, _, _)
BackwardMoves(b, vehicle, occupied, current_my_cells, steps) ==
    IF steps >= b.size
       \/ BackwardBlocked(b, vehicle, occupied, current_my_cells, steps)
    THEN <<>>
    ELSE <<<<vehicle.id, 0 - steps>>>>
            \o BackwardMoves(b, vehicle, occupied, current_my_cells, steps + 1)

\* The moves of the vehicles vs[i..], in the order the outer loop appends
\* them (board.py:80).
RECURSIVE MovesFrom(_, _, _)
MovesFrom(b, occupied, i) ==
    IF i > Len(b.vehicles) THEN <<>>
    ELSE ForwardMoves(b, b.vehicles[i], occupied, occupies(b.vehicles[i]), 1)
            \o BackwardMoves(b, b.vehicles[i], occupied,
                             occupies(b.vehicles[i]), 1)
            \o MovesFrom(b, occupied, i + 1)

\* Board.get_possible_moves: the list of (vehicle_id, steps).
get_possible_moves(b) == MovesFrom(b, get_occupied_cells(b), 1)

\* The copy of v that move() hands to add_vehicle (board.py:137-142).
Shifted(v, v_id, steps) ==
    IF v.id = v_id
    THEN IF v.orientation = "horizontal"
         THEN [v EXCEPT !.col = v.col + steps]
         ELSE [v EXCEPT !.row = v.row + steps]
    ELSE v

\* The loop of move() writing  new_board.vehicles[vid] = new_v  itself,
\* without going through add_vehicle.
RECURSIVE MoveLoopUnchecked(_, _, _, _, _)
MoveLoopUnchecked(vs, i, v_id, steps, new_board) ==
    IF i > Len(vs) THEN new_board
    ELSE MoveLoopUnchecked(vs, i + 1, v_id, steps,
             [new_board EXCEPT
                 !.vehicles = DictSet(new_board.vehicles,
                                      Shifted(vs[i], v_id, steps))])

\* The loop of move(): vehicles vs[i..] added to new_board; the flag that
\* add_vehicle returns is dropped (board.py:143).
RECURSIVE MoveLoop(_, _, _, _, _)
MoveLoop(vs, i, v_id, steps, new_board) ==
    IF i > Len(vs) THEN new_board
    ELSE MoveLoop(vs, i + 1, v_id, steps,
                  add_vehicle(new_board, Shifted(vs[i], v_id, steps)).board)

\* Board.move
move(b, v_id, steps) == MoveLoop(b.vehicles, 1, v_id, steps, Board(b.size))

\* The board move() was called on if the loop shifted v itself instead of
\* a copy of it.
MovedSelfAliased(b, v_id, steps) ==
    [b EXCEPT !.vehicles = [i \in DOMAIN b.vehicles |->
                               Shifted(b.vehicles[i], v_id, steps)]]

\* The board move() was called on, as the call leaves it: the loop shifts
\* new_v, the copy taken at board.py:137, and only reads self.
MovedSelf(b, v_id, steps) == b

---------------------------------------------------------------------------
(* Notions the claims are stated with *)

\* No two vehicles of b overlap and every occupied cell is on the grid.
ValidBoard(b) ==
    /\ \A i, j \in DOMAIN b.vehicles :
          i # j => occupies(b.vehicles[i]) \cap occupies(b.vehicles[j]) = {}
    /\ \A i \in DOMAIN b.vehicles :
          \A cell \in occupies(b.vehicles[i]) :
              cell[1] \in 0 .. (b.size - 1) /\ cell[2] \in 0 .. (b.size - 1)

\* The elements of a sequence.
Range(s) == { s[i] : i \in DOMAIN s }

---------------------------------------------------------------------------
(* A caller driving one Board through its methods *)

\* The vehicles a caller tries to place: any id, orientation and length,
\* anchored on the grid or one cell off its low edges (a vehicle anchored on
\* the grid may still run off its high edges).
Anchors == (0 - 1) .. (BoardSize - 1)

VehicleInputs ==
    { Vehicle(id, o, l, r, c) :
        id \in Ids, o \in Orientations, l \in Lengths,
        r \in Anchors, c \in Anchors }

\* The step counts a caller passes to move(), legal or not.
StepInputs == (0 - BoardSize) .. BoardSize

\* `last` between two calls.
NoCall ==
    [op |-> "none", arg |-> <<>>, ret |-> <<>>, legal |-> FALSE, self |-> <<>>]

\* `gen` while generate_random_level is not running.
GenIdle ==
    [difficulty_min_moves |-> 0, attempt |-> 0, returned |-> "", level |-> <<>>]

SolverIdle ==
    /\ queue = <<>>
    /\ visited = {}
    /\ result = <<>>
    /\ dequeues = 0

Init ==
    /\ board = Board(BoardSize)
    /\ last = NoCall
    /\ pc = "api"
    /\ SolverIdle
    /\ gen = GenIdle

\* board.add_vehicle(vehicle)
AddVehicle(vehicle) ==
    /\ pc = "api" /\ last = NoCall
    /\ Len(board.vehicles) < MaxApiVehicles
    /\ board' = add_vehicle(board, vehicle).board
    /\ last' = [op |-> "add_vehicle", arg |-> vehicle,
                ret |-> add_vehicle(board, vehicle).ok, legal |-> FALSE,
                self |-> <<>>]
    /\ UNCHANGED <<pc, queue, visited, result, dequeues, gen>>

\* board = board.move(v_id, steps); move() has no raise and no assert, it
\* returns new_board on every path (board.py:144).  `legal` records whether
\* (v_id, steps) was among get_possible_moves() of the board moved, `self`
\* the board the caller held before the call, as the call left it.
Move(v_id, steps) ==
    /\ pc = "api" /\ last = NoCall
    /\ board' = move(board, v_id, steps)
    /\ last' = [op |-> "move", arg |-> <<v_id, steps>>, ret |-> "returned",
                legal |-> <<v_id, steps>> \in Range(get_possible_moves(board)),
                self |-> MovedSelf(board, v_id, steps)]
    /\ UNCHANGED <<pc, queue, visited, result, dequeues, gen>>

\* board.get_possible_moves()
GetPossibleMoves ==
    /\ pc = "api" /\ last = NoCall
    /\ last' = [op |-> "get_possible_moves", arg |-> <<>>,
                ret |-> get_possible_moves(board), legal |-> FALSE,
                self |-> <<>>]
    /\ UNCHANGED <<board, pc, queue, visited, result, dequeues, gen>>

\* board.get_state_hash()
GetStateHash ==
    /\ pc = "api" /\ last = NoCall
    /\ last' = [op |-> "get_state_hash", arg |-> <<>>,
                ret |-> get_state_hash(board), legal |-> FALSE,
                self |-> <<>>]
    /\ UNCHANGED <<board, pc, queue, visited, result, dequeues, gen>>

\* board.is_solved()
IsSolved ==
    /\ pc = "api" /\ last = NoCall
    /\ last' = [op |-> "is_solved", arg |-> <<>>,
                ret |-> is_solved(board), legal |-> FALSE,
                self |-> <<>>]
    /\ UNCHANGED <<board, pc, queue, visited, result, dequeues, gen>>

\* The caller is done with the returned value and goes on to its next call.
Return ==
    /\ pc = "api" /\ last # NoCall
    /\ last' = NoCall
    /\ UNCHANGED <<board, pc, queue, visited, result, dequeues, gen>>

Next ==
    \/ \E vehicle \in VehicleInputs : AddVehicle(vehicle)
    \/ \E v_id \in Ids, steps \in StepInputs : Move(v_id, steps)
    \/ GetPossibleMoves
    \/ GetStateHash
    \/ IsSolved
    \/ Return

Spec == Init /\ [][Next]_vars

---------------------------------------------------------------------------
(* generator/solver.py : solve_board(board), one step per loop iteration *)

\* A queue entry that keeps the path without its last move, as
\* queue.append((next_board, moves + 1, path)) would.
EntryWithParentPath(b, moves, path) ==
    [board |-> b, moves |-> moves,
     path |-> IF path = <<>> THEN <<>> ELSE SubSeq(path, 1, Len(path) - 1)]

\* A queue entry (current_board_obj, moves_count, path_list)
\* (solver.py:11, 38).
Entry(b, moves, path) == [board |-> b, moves |-> moves, path |-> path]

\* A returned (is_solvable, min_moves, solution_path).
Returned(is_solvable, min_moves, path) ==
    [is_solvable |-> is_solvable, min_moves |-> min_moves, path |-> path]

\* queue.pop(): the newest entry, where solve_board takes the oldest.
pop(q) == [item |-> q[Len(q)], rest |-> SubSeq(q, 1, Len(q) - 1)]

\* queue.popleft() (solver.py:21): the entry taken and the queue left.
popleft(q) == [item |-> Head(q), rest |-> Tail(q)]

\* moves + 1 >= MAX_DEPTH, where solve_board tests moves >= MAX_DEPTH.
OneBelowCeiling(moves) == moves + 1 >= Ceiling

\* if moves >= MAX_DEPTH (solver.py:23)
AtCeiling(moves) == moves >= Ceiling

\* The for loop without  visited.add(next_hash): a board is queued and its
\* key left out of the visited set.
RECURSIVE ForMovesNoMark(_, _, _, _, _)
ForMovesNoMark(cur, possible_moves, i, vis, q) ==
    IF i > Len(possible_moves)
    THEN [returned |-> FALSE, result |-> <<>>, visited |-> vis, queue |-> q]
    ELSE LET v_id == possible_moves[i][1]
             steps == possible_moves[i][2]
             next_board == move(cur.board, v_id, steps)
             new_path == Append(cur.path, <<v_id, steps>>)
         IN  IF get_state_hash(next_board) \notin vis
             THEN IF is_solved(next_board)
                  THEN [returned |-> TRUE,
                        result |-> Returned(TRUE, cur.moves + 1, new_path),
                        visited |-> vis, queue |-> q]
                  ELSE ForMovesNoMark(cur, possible_moves, i + 1, vis,
                                      Append(q, Entry(next_board,
                                                      cur.moves + 1,
                                                      new_path)))
             ELSE ForMovesNoMark(cur, possible_moves, i + 1, vis, q)

\* The for loop without the test  next_hash not in visited: every board a
\* move leads to is queued again.
RECURSIVE ForMovesRevisits(_, _, _, _, _)
ForMovesRevisits(cur, possible_moves, i, vis, q) ==
    IF i > Len(possible_moves)
    THEN [returned |-> FALSE, result |-> <<>>, visited |-> vis, queue |-> q]
    ELSE LET v_id == possible_moves[i][1]
             steps == possible_moves[i][2]
             next_board == move(cur.board, v_id, steps)
             new_path == Append(cur.path, <<v_id, steps>>)
         IN  IF is_solved(next_board)
             THEN [returned |-> TRUE,
                   result |-> Returned(TRUE, cur.moves + 1, new_path),
                   visited |-> vis, queue |-> q]
             ELSE ForMovesRevisits(cur, possible_moves, i + 1,
                                   vis \cup {get_state_hash(next_board)},
                                   Append(q, Entry(next_board, cur.moves + 1,
                                                   new_path)))

\* The for loop over possible_moves[i..] of one dequeued entry `cur`
\* (solver.py:28-38), from the visited set `vis` and the queue `q`: either
\* it returns from solve_board (returned, with `result`), or it ends with
\* the visited set and the queue as the loop left them.  current_board is
\* one object for the whole loop: each move() is called on it as the calls
\* before left it.
RECURSIVE ForMoves(_, _, _, _, _)
ForMoves(cur, possible_moves, i, vis, q) ==
    IF i > Len(possible_moves)
    THEN [returned |-> FALSE, result |-> <<>>, visited |-> vis, queue |-> q]
    ELSE LET v_id == possible_moves[i][1]
             steps == possible_moves[i][2]
             next_board == move(cur.board, v_id, steps)
             next_hash == get_state_hash(next_board)
             new_path == Append(cur.path, <<v_id, steps>>)
             after == [cur EXCEPT
                          !.board = MovedSelf(cur.board, v_id, steps)]
         IN  IF next_hash \notin vis
             THEN IF is_solved(next_board)
                  THEN [returned |-> TRUE,
                        result |-> Returned(TRUE, cur.moves + 1, new_path),
                        visited |-> vis, queue |-> q]
                  ELSE ForMoves(after, possible_moves, i + 1,
                                vis \cup {next_hash},
                                Append(q, Entry(next_board, cur.moves + 1,
                                                new_path)))
             ELSE ForMoves(after, possible_moves, i + 1, vis, q)

\* The vehicles placed on a board that is handed to solve_board, shaped as
\* generate_random_level shapes them: the target horizontal of length 2
\* (generator.py:25), cars of length 2 and trucks of length 3 in either
\* orientation (generator.py:34-35, 47), anchored anywhere on the grid.
\* The target goes first and obstacle i before obstacle i+1
\* (generator.py:26, 32); any of them may be left out.
BuildOrder ==
    <<"target">> \o SubSeq(ObstacleIds, 1,
                           IF MaxObstacles < Len(ObstacleIds)
                           THEN MaxObstacles ELSE Len(ObstacleIds))

BuildIndex(id) == CHOOSE i \in DOMAIN BuildOrder : BuildOrder[i] = id

\* length = 2 for car_i, 3 for truck_i (generator.py:34, 47).
LengthOf(id) == IF id \in {"car_0", "car_2"} THEN 2 ELSE 3

BuildInputs ==
    { Vehicle("target", "horizontal", 2, r, c) :
        r \in 0 .. (BoardSize - 1), c \in 0 .. (BoardSize - 1) }
    \cup { Vehicle(BuildOrder[i], o, LengthOf(BuildOrder[i]), r, c) :
        i \in 2 .. Len(BuildOrder), o \in Orientations,
        r \in 0 .. (BoardSize - 1), c \in 0 .. (BoardSize - 1) }

InitSolve ==
    /\ board = Board(BoardSize)
    /\ last = NoCall
    /\ pc = "build"
    /\ SolverIdle
    /\ gen = GenIdle

\* The caller places one more vehicle (generator.py:26, 50); a refused
\* vehicle leaves the board as it was.
Place(vehicle) ==
    /\ pc = "build"
    /\ \A i \in DOMAIN board.vehicles :
          BuildIndex(board.vehicles[i].id) < BuildIndex(vehicle.id)
    /\ board' = add_vehicle(board, vehicle).board
    /\ UNCHANGED <<last, pc, queue, visited, result, dequeues, gen>>

\* solve_board(board) without the test of solver.py:17-18.
SolveBoardNoSolvedTest ==
    /\ pc = "build"
    /\ queue' = <<Entry(board, 0, <<>>)>>
    /\ visited' = {get_state_hash(board)}
    /\ pc' = "loop"
    /\ UNCHANGED <<board, last, result, dequeues, gen>>

\* solve_board(board) starting from  deque([(board, 1, [])]).
SolveBoardStartAtOne ==
    /\ pc = "build"
    /\ queue' = <<Entry(board, 1, <<>>)>>
    /\ visited' = {get_state_hash(board)}
    /\ IF is_solved(board)
       THEN result' = Returned(TRUE, 0, <<>>) /\ pc' = "done"
       ELSE result' = result /\ pc' = "loop"
    /\ UNCHANGED <<board, last, dequeues, gen>>

\* solve_board(board) up to the while loop (solver.py:10-18).
SolveBoard ==
    /\ pc = "build"
    /\ queue' = <<Entry(board, 0, <<>>)>>
    /\ visited' = {get_state_hash(board)}
    /\ IF is_solved(board)
       THEN result' = Returned(TRUE, 0, <<>>) /\ pc' = "done"
       ELSE result' = result /\ pc' = "loop"
    /\ UNCHANGED <<board, last, dequeues, gen>>

\* One iteration that stops at the depth ceiling (solver.py:21-24).
SkipDeep ==
    /\ pc = "loop" /\ queue # <<>>
    /\ AtCeiling(popleft(queue).item.moves)
    /\ queue' = popleft(queue).rest
    /\ dequeues' = dequeues + 1
    /\ UNCHANGED <<board, last, pc, visited, result, gen>>

\* One iteration that expands the dequeued entry (solver.py:21-38).
Expand ==
    /\ pc = "loop" /\ queue # <<>>
    /\ ~AtCeiling(popleft(queue).item.moves)
    /\ LET cur == popleft(queue).item
           out == ForMoves(cur, get_possible_moves(cur.board), 1,
                           visited, popleft(queue).rest)
       IN  /\ queue' = out.queue
           /\ visited' = out.visited
           /\ IF out.returned
              THEN result' = out.result /\ pc' = "done"
              ELSE result' = result /\ pc' = "loop"
    /\ dequeues' = dequeues + 1
    /\ UNCHANGED <<board, last, gen>>

\* The queue ran empty (solver.py:20, 40).
Exhausted ==
    /\ pc = "loop" /\ queue = <<>>
    /\ result' = Returned(FALSE, 0, <<>>)
    /\ pc' = "done"
    /\ UNCHANGED <<board, last, queue, visited, dequeues, gen>>

NextSolve ==
    \/ \E vehicle \in BuildInputs : Place(vehicle)
    \/ SolveBoard
    \/ SkipDeep
    \/ Expand
    \/ Exhausted

SpecSolve == InitSolve /\ [][NextSolve]_vars

---------------------------------------------------------------------------
(* generator/generator.py : generate_random_level(difficulty_min_moves,
   max_attempts), one step per placement, per solver iteration and per
   verdict on a candidate *)

\* Board.__init__(self, size=6), as generate_random_level calls it.
DefaultSize == 6

\* The target's row and the largest column drawn for it (generator.py:24-25).
TargetRow == 2

MaxTargetCol == 3

\* Obstacles are drawn so that they reach the last GenColumns columns of
\* the grid and lie no more than one column before them.
GenColumns == 1

\* max_attempts
MaxAttempts == 2

\* difficulty_min_moves
DifficultyInputs == (Ceiling - 1) .. Ceiling

\* The obstacles of one candidate in loop order: v_id is car_i for length 2
\* and truck_i for length 3 (generator.py:32-47); an obstacle that found no
\* spot in its 20 tries is left out.
GenOrder == <<"target", "car_0", "truck_1", "truck_3">>

GenIndex(id) == CHOOSE i \in DOMAIN GenOrder : GenOrder[i] = id

\* The obstacles handed to add_vehicle: either orientation, any row, but
\* never horizontal on the target's row (generator.py:44-45).
GenInputs ==
    { v \in { Vehicle(GenOrder[i], o, LengthOf(GenOrder[i]), r, c) :
                i \in 2 .. Len(GenOrder), o \in Orientations,
                r \in 0 .. (DefaultSize - 1),
                c \in 0 .. (DefaultSize - 1) } :
        /\ ~(v.row = TargetRow /\ v.orientation = "horizontal")
        /\ \E cell \in occupies(v) : cell[2] >= DefaultSize - GenColumns
        /\ \A cell \in occupies(v) : cell[2] >= DefaultSize - GenColumns - 1 }

\* The acceptance test without  moves >= difficulty_min_moves.
AcceptedAnySolvable(is_solvable, moves, difficulty_min_moves) == is_solvable

\* is_solvable and moves >= difficulty_min_moves  (generator.py:57).
Accepted(is_solvable, moves, difficulty_min_moves) ==
    is_solvable /\ moves >= difficulty_min_moves

\* generate_random_level is called and its first attempt has made
\* board = Board()  (generator.py:17-19).
InitGen ==
    /\ board = Board(DefaultSize)
    /\ last = NoCall
    /\ pc = "target"
    /\ SolverIdle
    /\ \E d \in DifficultyInputs :
          gen = [difficulty_min_moves |-> d, attempt |-> 1,
                 returned |-> "", level |-> <<>>]

\* The target goes on the empty board (generator.py:24-26).
PlaceTarget(target_col) ==
    /\ pc = "target"
    /\ board' = add_vehicle(board, Vehicle("target", "horizontal", 2,
                                           TargetRow, target_col)).board
    /\ pc' = "build"
    /\ UNCHANGED <<last, queue, visited, result, dequeues, gen>>

\* One obstacle finds its spot, or runs out of tries and leaves the board
\* as it was (generator.py:32-52).
PlaceObstacle(new_v) ==
    /\ pc = "build" /\ gen.attempt > 0
    /\ \A i \in DOMAIN board.vehicles :
          GenIndex(board.vehicles[i].id) < GenIndex(new_v.id)
    /\ board' = add_vehicle(board, new_v).board
    /\ UNCHANGED <<last, pc, queue, visited, result, dequeues, gen>>

\* The candidate is accepted and returned (generator.py:57-61).
Accept ==
    /\ pc = "done" /\ gen.attempt > 0
    /\ Accepted(result.is_solvable, result.min_moves,
                gen.difficulty_min_moves)
    /\ gen' = [gen EXCEPT !.returned = "level",
                          !.level = [difficulty_score |-> result.min_moves,
                                     vehicles |-> board.vehicles]]
    /\ pc' = "returned"
    /\ UNCHANGED <<board, last, queue, visited, result, dequeues>>

\* The candidate is dropped and the next attempt starts from a new Board()
\* and a new call of solve_board (generator.py:17-19, 55).
Retry ==
    /\ pc = "done" /\ gen.attempt > 0
    /\ ~Accepted(result.is_solvable, result.min_moves,
                 gen.difficulty_min_moves)
    /\ gen.attempt < MaxAttempts
    /\ gen' = [gen EXCEPT !.attempt = gen.attempt + 1]
    /\ board' = Board(DefaultSize)
    /\ queue' = <<>> /\ visited' = {} /\ result' = <<>> /\ dequeues' = 0
    /\ pc' = "target"
    /\ UNCHANGED last

\* The last attempt is dropped too: return None (generator.py:63).
GiveUp ==
    /\ pc = "done" /\ gen.attempt > 0
    /\ ~Accepted(result.is_solvable, result.min_moves,
                 gen.difficulty_min_moves)
    /\ gen.attempt >= MaxAttempts
    /\ gen' = [gen EXCEPT !.returned = "None"]
    /\ pc' = "returned"
    /\ UNCHANGED <<board, last, queue, visited, result, dequeues>>

NextGen ==
    \/ \E target_col \in 0 .. MaxTargetCol : PlaceTarget(target_col)
    \/ \E new_v \in GenInputs : PlaceObstacle(new_v)
    \/ SolveBoard
    \/ SkipDeep
    \/ Expand
    \/ Exhausted
    \/ Accept
    \/ Retry
    \/ GiveUp

SpecGen == InitGen /\ [][NextGen]_vars



---------------------------------------------------------------------------
(* The puzzle's move graph, stated without get_possible_moves and move *)

Abs(k) == IF k < 0 THEN 0 - k ELSE k

Sign(k) == IF k < 0 THEN 0 - 1 ELSE 1

\* Vehicle v slid d cells along its own axis.
Slid(v, d) ==
    IF v.orientation = "horizontal"
    THEN [v EXCEPT !.col = v.col + d]
    ELSE [v EXCEPT !.row = v.row + d]

\* Every cell of v is on the grid of b.
OnGrid(b, v) ==
    \A cell \in occupies(v) :
        cell[1] \in 0 .. (b.size - 1) /\ cell[2] \in 0 .. (b.size - 1)

\* No cell of v is a cell of a different vehicle of b.
ClearOfOthers(b, v) ==
    \A i \in DOMAIN b.vehicles :
        b.vehicles[i].id # v.id => occupies(v) \cap occupies(b.vehicles[i]) = {}

\* Sliding vehicle id by k is one legal move: each of the |k| single steps
\* keeps it on the grid and off the other vehicles.
LegalSlide(b, id, k) ==
    /\ id \in keys(b)
    /\ k # 0
    /\ \A j \in 1 .. Abs(k) :
          LET w == Slid(lookup(b, id), Sign(k) * j)
          IN  OnGrid(b, w) /\ ClearOfOthers(b, w)

\* b with vehicle id slid by k.
SlideBoard(b, id, k) ==
    [b EXCEPT !.vehicles =
        [i \in DOMAIN b.vehicles |->
            IF b.vehicles[i].id = id THEN Slid(b.vehicles[i], k)
            ELSE b.vehicles[i]]]

\* The boards one legal move away from b.
Neighbours(b) ==
    { SlideBoard(b, m[1], m[2]) :
        m \in { n \in keys(b) \X ((0 - b.size) .. b.size) :
                    LegalSlide(b, n[1], n[2]) } }

\* The boards at most n legal moves away from the boards of `seen`, whose
\* newest members are `frontier`.
RECURSIVE Within(_, _, _)
Within(seen, frontier, n) ==
    IF n = 0 \/ frontier = {} THEN seen
    ELSE LET new == UNION { Neighbours(b) : b \in frontier } \ seen
         IN  Within(seen \cup new, new, n - 1)

\* Some solved board is at most n legal moves away from the boards of
\* `seen`, whose newest members are `frontier`.
RECURSIVE SolvedFrom(_, _, _)
SolvedFrom(seen, frontier, n) ==
    IF \E x \in frontier : is_solved(x) THEN TRUE
    ELSE IF n = 0 \/ frontier = {} THEN FALSE
    ELSE LET new == UNION { Neighbours(b) : b \in frontier } \ seen
         IN  SolvedFrom(seen \cup new, new, n - 1)

\* Some solved board is at most n legal moves away from b.
SolvedWithin(b, n) == n >= 0 /\ SolvedFrom({b}, {b}, n)

\* path is a sequence of moves each legal, by get_possible_moves, on the
\* board it is applied to.
RECURSIVE PathLegal(_, _)
PathLegal(b, path) ==
    IF path = <<>> THEN TRUE
    ELSE /\ Head(path) \in Range(get_possible_moves(b))
         /\ PathLegal(move(b, Head(path)[1], Head(path)[2]), Tail(path))

\* The board that replaying path from b by Board.move ends in.
RECURSIVE Replay(_, _)
Replay(b, path) ==
    IF path = <<>> THEN b
    ELSE Replay(move(b, Head(path)[1], Head(path)[2]), Tail(path))

---------------------------------------------------------------------------
(* Claims about solve_board and the boards it searches, checked under
   SpecSolve *)

\* C1: minimality.  When solve_board returns (True, k, path) with k > 0, a
\* solved board is k legal moves away from the input board and none is
\* k - 1 or fewer moves away: k is the distance to the nearest solved board.
C1_Minimality ==
    (pc = "done" /\ result.is_solvable /\ result.min_moves > 0)
        => /\ SolvedWithin(board, result.min_moves)
           /\ ~SolvedWithin(board, result.min_moves - 1)

\* solve_board has returned a solution of three moves.
C1_Witness ==
    pc = "done" /\ result.is_solvable /\ result.min_moves = 3

\* C2: when solve_board returns solvable = True, the path has exactly
\* min_moves moves, each a member of get_possible_moves() of the board it is
\* applied to, and replaying it from the input board by Board.move ends in a
\* board whose is_solved() is true.
C2_PathReplays ==
    (pc = "done" /\ result.is_solvable)
        => /\ Len(result.path) = result.min_moves
           /\ PathLegal(board, result.path)
           /\ is_solved(Replay(board, result.path))

\* solve_board has returned a path of at least two moves that moves an
\* obstacle first.
C2_Witness ==
    /\ pc = "done" /\ result.is_solvable
    /\ Len(result.path) >= 2
    /\ result.path[1][1] # "target"

\* C3: the depth ceiling.  No entry deeper than the ceiling is ever queued,
\* and for an unsolved input board solve_board returns solvable = True
\* exactly when a solved board is at most Ceiling moves away; a board whose
\* nearest solved board is farther gets (False, 0, []), as an unsolvable one.
C3_DepthCeiling ==
    /\ \A i \in DOMAIN queue : queue[i].moves <= Ceiling
    /\ (pc = "done" /\ ~is_solved(board))
          => /\ result.is_solvable <=> SolvedWithin(board, Ceiling)
             /\ result.is_solvable => result.min_moves <= Ceiling
             /\ ~result.is_solvable => result = Returned(FALSE, 0, <<>>)

\* solve_board has returned (False, 0, []) for a board that one move more
\* than the ceiling solves.
C3_Witness ==
    /\ pc = "done" /\ ~is_solved(board)
    /\ result = Returned(FALSE, 0, <<>>)
    /\ SolvedWithin(board, Ceiling + 1)

\* C4: for an input board that is already solved, solve_board returns
\* (True, 0, []) and has dequeued nothing, whatever else is on the board.
C4_SolvedAtStart ==
    (pc = "done" /\ is_solved(board))
        => result = Returned(TRUE, 0, <<>>) /\ dequeues = 0

\* solve_board has returned for a solved board that holds obstacles too.
C4_Witness ==
    pc = "done" /\ is_solved(board) /\ Len(board.vehicles) >= 3

\* The boards reachable from b by legal moves.
Reachable(b) == Within({b}, {b}, b.size * b.size * b.size)

\* The keys a board of b's vehicles can have with every anchor on the grid
\* (finitely many): one (id, row, col) per vehicle.
OnGridKey(b, key) ==
    /\ Len(key) = Len(b.vehicles)
    /\ \A i \in DOMAIN key :
          /\ key[i][1] \in keys(b)
          /\ key[i][2] \in 0 .. (b.size - 1)
          /\ key[i][3] \in 0 .. (b.size - 1)

\* C5: for an input board without a vehicle 'target', is_solved() is false
\* of every board the search queues and of every board reachable from the
\* input, and solve_board terminates returning solvable = False: it has
\* dequeued no more entries than it has visited keys, the visited keys are
\* among the finitely many keys with every anchor on the grid (so the loop,
\* which dequeues once per iteration, runs finitely often), and what it
\* returns is not solvable.
C5_NoTarget ==
    ("target" \notin keys(board) /\ pc \in {"loop", "done"})
        => /\ \A i \in DOMAIN queue : ~is_solved(queue[i].board)
           /\ dequeues <= Cardinality(visited)
           /\ \A key \in visited : OnGridKey(board, key)
           /\ pc = "done"
                => /\ ~result.is_solvable
                   /\ \A x \in Reachable(board) : ~is_solved(x)

\* solve_board has returned not solvable for a board of two or more
\* obstacles and no target, after expanding some entries.
C5_Witness ==
    /\ pc = "done" /\ "target" \notin keys(board)
    /\ Len(board.vehicles) >= 2
    /\ ~result.is_solvable /\ dequeues >= 2

\* C6: legal moves keep the board valid.  Every board in the search queue
\* is valid and holds the vehicles of the input board, and for the entry
\* about to be expanded every (id, steps) of get_possible_moves() gives,
\* by move(id, steps), a board with the same vehicle ids whose vehicles are
\* pairwise disjoint and on the grid.
C6_LegalMovesKeepValid ==
    pc = "loop" =>
        \A i \in DOMAIN queue :
            LET b == queue[i].board
            IN  /\ ValidBoard(b)
                /\ keys(b) = keys(board)
                /\ i = 1 =>
                     \A m \in Range(get_possible_moves(b)) :
                        LET new_board == move(b, m[1], m[2])
                        IN  /\ keys(new_board) = keys(b)
                            /\ Len(new_board.vehicles) = Len(b.vehicles)
                            /\ ValidBoard(new_board)

\* The entry about to be expanded is two moves deep, holds four vehicles
\* and has a move of more than one cell.
C6_Witness ==
    /\ pc = "loop" /\ queue # <<>>
    /\ Head(queue).moves = 2
    /\ Len(Head(queue).board.vehicles) = 4
    /\ \E m \in Range(get_possible_moves(Head(queue).board)) : Abs(m[2]) = 2

---------------------------------------------------------------------------
(* Claims about Board, checked under Spec *)

\* C7: get_possible_moves is exact.  On the (valid) board it is called on,
\* (id, k) is returned exactly when k # 0 and each of the |k| single steps
\* of vehicle id keeps it on the grid and off every other vehicle; so the
\* step counts of a vehicle in one direction are a run 1..m, step 0 is never
\* returned, and no move is returned twice.
C7_MovesExact ==
    last.op = "get_possible_moves" =>
        /\ ValidBoard(board)
        /\ \A id \in Ids, k \in (0 - BoardSize - 1) .. (BoardSize + 1) :
              (<<id, k>> \in Range(last.ret)) <=> LegalSlide(board, id, k)
        /\ \A i \in DOMAIN last.ret :
              /\ last.ret[i][1] \in keys(board)
              /\ last.ret[i][2] # 0
              /\ Abs(last.ret[i][2]) > 1 =>
                    <<last.ret[i][1], last.ret[i][2] - Sign(last.ret[i][2])>>
                        \in Range(last.ret)
        /\ \A i, j \in DOMAIN last.ret : i # j => last.ret[i] # last.ret[j]

\* get_possible_moves() was called on a board of two vehicles where one
\* blocks the other and one can slide two cells.
C7_Witness ==
    /\ last.op = "get_possible_moves"
    /\ Len(board.vehicles) = 2
    /\ \E m \in Range(last.ret) : Abs(m[2]) = 2
    /\ \E id \in keys(board), k \in {0 - 1, 1} :
          /\ OnGrid(board, Slid(lookup(board, id), k))
          /\ ~ClearOfOthers(board, Slid(lookup(board, id), k))

\* C8: add_vehicle is the admission gate.  If the new vehicle overlaps a
\* vehicle of the board or has a cell off the grid, add_vehicle returns
\* False and leaves the board as it was; otherwise it returns True, the
\* vehicle is in the mapping under its id and the other vehicles are
\* untouched.  The board after the call has no two vehicles overlapping and
\* every occupied cell on the grid.
C8_AddVehicleGate ==
    [][ last'.op = "add_vehicle" =>
          LET vehicle == last'.arg
              refused ==
                \/ \E w \in Range(board.vehicles) :
                      occupies(vehicle) \cap occupies(w) # {}
                \/ ~OnGrid(board, vehicle)
          IN  /\ refused => (last'.ret = FALSE /\ board' = board)
              /\ ~refused =>
                    /\ last'.ret = TRUE
                    /\ lookup(board', vehicle.id) = vehicle
                    /\ keys(board') = keys(board) \cup {vehicle.id}
                    /\ Len(board'.vehicles) = Cardinality(keys(board'))
                    /\ \A w \in Range(board.vehicles) :
                          w.id # vehicle.id => w \in Range(board'.vehicles)
              /\ ValidBoard(board')
      ]_vars

\* add_vehicle has refused a vehicle that lies on the grid (an overlap), on
\* a board that holds one vehicle.
C8_Witness ==
    /\ last.op = "add_vehicle" /\ last.ret = FALSE
    /\ Len(board.vehicles) = 1
    /\ OnGrid(board, last.arg)

\* The permutations of 1..n.
Perms(n) ==
    { p \in [1 .. n -> 1 .. n] : \A i, j \in 1 .. n : i # j => p[i] # p[j] }

\* The boards of the same vehicles as b (ids, orientations, lengths), each
\* anchored anywhere on the grid, inserted in any order.
SameVehicleBoards(b) ==
    LET n == Len(b.vehicles)
        cells == (0 .. (b.size - 1)) \X (0 .. (b.size - 1))
    IN  { [b EXCEPT !.vehicles =
              [i \in 1 .. n |->
                  [b.vehicles[p[i]] EXCEPT !.row = at[p[i]][1],
                                           !.col = at[p[i]][2]]]] :
            p \in Perms(n), at \in [1 .. n -> cells] }

\* Every vehicle of x has the anchor it has in y.
SameAnchors(x, y) ==
    \A id \in keys(x) :
        /\ lookup(x, id).row = lookup(y, id).row
        /\ lookup(x, id).col = lookup(y, id).col

\* C9: the key returned by get_state_hash depends only on the (id, row, col)
\* of the vehicles: a board of the same vehicles, inserted in any order, has
\* the same key exactly when every vehicle has the same anchor.
C9_KeyCanonical ==
    last.op = "get_state_hash" =>
        \A x \in SameVehicleBoards(board) :
            (get_state_hash(x) = last.ret) <=> SameAnchors(x, board)

\* get_state_hash() was called on a board whose two vehicles were inserted
\* against the order of their ids.
C9_Witness ==
    /\ last.op = "get_state_hash"
    /\ Len(board.vehicles) = 2
    /\ IdRank(board.vehicles[1].id) > IdRank(board.vehicles[2].id)

\* C10: move(id, steps) with (id, steps) not in get_possible_moves() of the
\* board fails loudly instead of returning a board.
C10_IllegalMoveFailsLoudly ==
    (last.op = "move" /\ ~last.legal) => last.ret = "raised"

\* C11: whatever (id, steps) move() is called with, legal or not, the board
\* it returns has no two vehicles on one cell and no cell off the grid.
C11_MoveKeepsValid ==
    last.op = "move" => ValidBoard(board)

\* move() was called with a move that get_possible_moves() did not offer,
\* on a board of two vehicles, and returned a board of one.
C11_Witness ==
    /\ last.op = "move" /\ ~last.legal
    /\ Len(last.self.vehicles) = 2
    /\ Len(board.vehicles) = 1

\* C14: every board built by add_vehicle and move holds at most one vehicle
\* with the id 'target', and a vehicle with that id is horizontal and of
\* length 2.
C14_TargetShape ==
    /\ \A i, j \in DOMAIN board.vehicles :
          (board.vehicles[i].id = "target" /\ board.vehicles[j].id = "target")
              => i = j
    /\ \A i \in DOMAIN board.vehicles :
          board.vehicles[i].id = "target"
              => /\ board.vehicles[i].orientation = "horizontal"
                 /\ board.vehicles[i].length = 2

C20_Reversible ==
    [][ (last'.op = "move" /\ last'.legal) =>
          LET v_id == last'.arg[1]
              k == last'.arg[2]
          IN  /\ <<v_id, 0 - k>> \in Range(get_possible_moves(board'))
              /\ get_state_hash(move(board', v_id, 0 - k))
                    = get_state_hash(board)
    ]_vars

\* A horizontal vehicle was slid one cell back by a legal move and now
\* touches the other vehicle of the board.
C20_Witness ==
    /\ last.op = "move" /\ last.legal
    /\ Len(board.vehicles) = 2
    /\ last.arg[2] = 0 - 1
    /\ lookup(board, last.arg[1]).orientation = "horizontal"
    /\ BackCell(lookup(board, last.arg[1]), 1) \in get_occupied_cells(board)

---------------------------------------------------------------------------
(* Claims about the search loop of solve_board, checked under SpecSolve *)

\* The keys of the entries of q, in order.
QueueKeys(q) == [i \in DOMAIN q |-> get_state_hash(q[i].board)]

\* C15: the visited-set discipline.  The key of every queued entry is in
\* the visited set and no two queued entries have one key; solve_board
\* starts from the root alone, queued and visited; an iteration takes the
\* head off the queue and appends entries whose keys were not visited
\* before it, are pairwise different and are all visited after it, and the
\* visited set grows by these keys and nothing else.  So no key is queued
\* twice during one call, the root's included.
C15_VisitedDiscipline ==
    /\ [](LET queued == QueueKeys(queue)
          IN  /\ Range(queued) \subseteq visited
              /\ Cardinality(Range(queued)) = Len(queued))
    /\ [][ /\ (pc = "build" /\ pc' # "build")
              => /\ queue' = <<Entry(board, 0, <<>>)>>
                 /\ visited' = {get_state_hash(board)}
           /\ (pc = "loop" /\ queue # <<>>)
              => LET kept == Len(queue) - 1
                     added == SubSeq(QueueKeys(queue'), kept + 1, Len(queue'))
                 IN  /\ Len(queue') >= kept
                     /\ SubSeq(queue', 1, kept) = Tail(queue)
                     /\ \A i \in DOMAIN added : added[i] \notin visited
                     /\ \A i, j \in DOMAIN added :
                           i # j => added[i] # added[j]
                     /\ visited' = visited \cup Range(added)
       ]_vars

\* The entry about to be expanded has a move to a board already visited
\* and a move to a board not yet visited.
C15_Witness ==
    /\ pc = "loop" /\ queue # <<>> /\ dequeues >= 1
    /\ ~AtCeiling(Head(queue).moves)
    /\ LET b == Head(queue).board
       IN  /\ \E m \in Range(get_possible_moves(b)) :
                 get_state_hash(move(b, m[1], m[2])) \in visited
           /\ \E m \in Range(get_possible_moves(b)) :
                 /\ get_state_hash(move(b, m[1], m[2])) \notin visited
                 /\ ~is_solved(move(b, m[1], m[2]))

\* The boards one legal slide of one cell away from b.
UnitNeighbours(b) ==
    { SlideBoard(b, m[1], m[2]) :
        m \in { n \in keys(b) \X {0 - 1, 1} : LegalSlide(b, n[1], n[2]) } }

\* The boards reachable from the boards of `seen`, whose newest members are
\* `frontier`, by legal slides of one cell; a legal slide of k cells is k
\* legal slides of one cell, so these are the boards reachable by legal
\* moves.
RECURSIVE UnitClosure(_, _)
UnitClosure(seen, frontier) ==
    IF frontier = {} THEN seen
    ELSE LET new == UNION { UnitNeighbours(b) : b \in frontier } \ seen
         IN  UnitClosure(seen \cup new, new)

\* C17: termination.  Every iteration of the loop either returns or takes
\* one entry off the queue; the entries dequeued and those still queued are
\* never more than the keys visited; and when solve_board has returned,
\* every visited key is the key of a board reachable from the input board
\* and the number of dequeues is at most the number of reachable boards,
\* a bound that does not mention the depth ceiling.
C17_Terminates ==
    /\ [](/\ dequeues + Len(queue) <= Cardinality(visited)
          /\ pc = "done" =>
                LET reach == UnitClosure({board}, {board})
                IN  /\ visited \subseteq {get_state_hash(x) : x \in reach}
                    /\ dequeues <= Cardinality(reach))
    /\ [][ pc = "loop" =>
             \/ pc' = "done" /\ dequeues' \in {dequeues, dequeues + 1}
             \/ pc' = "loop" /\ dequeues' = dequeues + 1
       ]_vars

\* solve_board has returned not solvable after dequeuing every one of the
\* six or more boards reachable from its input.
C17_Witness ==
    /\ pc = "done" /\ ~result.is_solvable
    /\ dequeues >= 6
    /\ dequeues = Cardinality(UnitClosure({board}, {board}))

\* C19: the frontier invariant.  In every state of the loop each queued
\* entry has moves = len(path), its board is what replaying its path from
\* the input board by Board.move gives, its board is not solved, and the
\* move counts never decrease from the head of the queue to its tail and
\* differ by at most 1.
C19_Frontier ==
    pc = "loop" =>
        /\ \A i \in DOMAIN queue :
              /\ queue[i].moves = Len(queue[i].path)
              /\ Replay(board, queue[i].path) = queue[i].board
              /\ ~is_solved(queue[i].board)
        /\ \A i, j \in DOMAIN queue :
              i < j => /\ queue[i].moves <= queue[j].moves
                       /\ queue[j].moves - queue[i].moves <= 1

\* The queue holds entries of two depths, one move and two moves from the
\* input board.
C19_Witness ==
    /\ pc = "loop" /\ Len(queue) >= 3
    /\ Head(queue).moves = 1
    /\ queue[Len(queue)].moves = 2

---------------------------------------------------------------------------
(* Claims about the boards generate_random_level builds and what it returns,
   checked under SpecGen *)

\* Scenario A: the target alone at row 2, columns 0-1 of the 6x6 board.
ScenarioA ==
    add_vehicle(Board(DefaultSize),
                Vehicle("target", "horizontal", 2, TargetRow, 0)).board

\* Scenario B: scenario A with column 5 filled by two vertical trucks.
ScenarioB ==
    add_vehicle(
        add_vehicle(ScenarioA, Vehicle("truck_1", "vertical", 3, 0,
                                       DefaultSize - 1)).board,
        Vehicle("truck_3", "vertical", 3, 3, DefaultSize - 1)).board

\* C12 as the specification states it: on scenario A solve_board returns
\* (True, 1, [("target", 3)]).
C12_ScenarioA_Slide3 ==
    (pc = "done" /\ board = ScenarioA)
        => result = Returned(TRUE, 1, <<<<"target", 3>>>>)

\* C12, amended: on scenario A solve_board returns
\* (True, 1, [("target", 4)]): one slide of 4 cells takes the target from
\* column 0 to column 4, where col + length = 6.
C12_ScenarioA ==
    (pc = "done" /\ board = ScenarioA)
        => result = Returned(TRUE, 1, <<<<"target", 4>>>>)

\* solve_board has returned on scenario A.
C12_Witness ==
    pc = "done" /\ board = ScenarioA /\ dequeues = 1

\* Some vehicle other than the target holds the cell of the last column on
\* the target's row.
ExitHeld(x) ==
    \E i \in DOMAIN x.vehicles :
        /\ x.vehicles[i].id # "target"
        /\ <<lookup(x, "target").row, x.size - 1>> \in occupies(x.vehicles[i])

\* C13: on scenario B solve_board returns (False, 0, []); and whenever, on
\* a board with the target, the last cell of the target's row is held by
\* another vehicle in every board reachable from the input, solve_board
\* returns not solvable.
C13_ExitBlocked ==
    pc = "done" =>
        /\ board = ScenarioB => result = Returned(FALSE, 0, <<>>)
        /\ ("target" \in keys(board)
              /\ \A x \in UnitClosure({board}, {board}) : ExitHeld(x))
             => ~result.is_solvable

\* solve_board has returned on scenario B after dequeuing the four boards
\* the target can reach.
C13_Witness ==
    pc = "done" /\ board = ScenarioB /\ dequeues = 4

\* C18: generator acceptance.  A returned level comes from a candidate
\* that holds the target, is valid and for which solve_board returned
\* solvable with min_moves >= difficulty_min_moves; its difficulty_score is
\* that min_moves and its vehicles are the candidate's, which no step has
\* changed since it was handed to solve_board; a candidate is dropped only
\* when it fails the test; and None is returned only when the candidate of
\* the last of max_attempts attempts fails it too.
C18_GeneratorAcceptance ==
    /\ [](pc = "returned" =>
            LET acceptable ==
                    /\ result.is_solvable
                    /\ result.min_moves >= gen.difficulty_min_moves
            IN  IF gen.returned = "None"
                THEN gen.attempt = MaxAttempts /\ ~acceptable
                ELSE /\ gen.returned = "level"
                     /\ acceptable
                     /\ "target" \in keys(board)
                     /\ ValidBoard(board)
                     /\ gen.level.difficulty_score = result.min_moves
                     /\ gen.level.vehicles = board.vehicles)
    /\ [][ /\ (pc \in {"build", "loop", "done"} /\ pc' \notin {"build", "target"})
              => board' = board
           /\ (pc = "done" /\ pc' = "target")
              => /\ ~(result.is_solvable
                       /\ result.min_moves >= gen.difficulty_min_moves)
                 /\ gen.attempt < MaxAttempts
                 /\ gen'.attempt = gen.attempt + 1
       ]_vars

\* A level of difficulty 3 was returned from the second attempt, for
\* difficulty_min_moves = 2.
C18_Witness ==
    /\ pc = "returned" /\ gen.returned = "level"
    /\ gen.attempt = 2
    /\ gen.difficulty_min_moves = 2
    /\ gen.level.difficulty_score = 3

===========================================================================
